---- MODULE Spec2Model ----
(***************************************************************************)
(* Model of the source-structure extractor (codebase_blueprint.py) and of  *)
(* the dependency analyzer (dependency_analyzer.py).                       *)
(*                                                                         *)
(* Text model.  A line of source text is a sequence of tokens; the text of *)
(* the line is its tokens written left to right, words separated by one    *)
(* blank, the punctuation tokens "(" ")" "," ";" written without blanks    *)
(* around them.  A regular expression of the pattern tables is modelled by *)
(* an operator that matches the same shapes on the token sequence.  A path *)
(* or a dependency token is a sequence of one-character strings, so that   *)
(* substring containment, basename and splitext are computed.  The usage   *)
(* tracker searches the characters of the text in lower case, as its       *)
(* case-insensitive searches do.                                           *)
(*                                                                         *)
(* Specifications: SpecRegex (heuristic extractor, one line per step),     *)
(* SpecPrecise (tree visitor, one node per step), SpecDeps (dependency     *)
(* analyzer, one file per step), SpecBlueprint (blueprint with the usage   *)
(* tracker and the summary, one file per step), SpecExtract (a file goes   *)
(* to the heuristic extractor or to the tree visitor).                     *)
(***************************************************************************)
EXTENDS Integers, Sequences, FiniteSets, TLC

VARIABLES
    scan,       \* analyze_file_with_regex: its frame (structure, line_num, ...)
    scan_pc,    \* analyze_file_with_regex: position ("start", "loop", "done")
    visitor,    \* NodeVisitor: its fields and the nodes still to visit
    all_file_data,  \* the metadata mapping: its keys in order, and the records
    files,      \* the disk as analyze_dependencies reads it: path -> text
    fan_out_map,    \* analyze_dependencies: path -> list of resolved targets
    dep_pc,     \* analyze_dependencies: position ("fan_out", "fan_in", "done")
    dep_i,      \* analyze_dependencies: index of the next file of the first loop
    disk,       \* the disk as analyze_codebase_blueprint reads it: path -> file
    blueprint_data, \* analyze_codebase_blueprint: path -> CodeStructure, keys in order
    result,     \* analyze_codebase_blueprint: the returned dictionary
    bp_pc,      \* analyze_codebase_blueprint: position ("extract", "track", "done")
    bp_i        \* analyze_codebase_blueprint: index of the next file of the running loop

vars ==
    <<scan, scan_pc, visitor, all_file_data, files, fan_out_map, dep_pc, dep_i,
      disk, blueprint_data, result, bp_pc, bp_i>>
extractVars == <<scan, scan_pc, visitor>>
depVars == <<all_file_data, files, fan_out_map, dep_pc, dep_i>>
bpVars == <<disk, blueprint_data, result, bp_pc, bp_i>>

None == "None"

\* ------------------------------------------------------------------------
\* Generic helpers
\* ------------------------------------------------------------------------
Punct == {"{", "}", "(", ")", ",", ";", "=", ":"}

IsWord(t) == t # "" /\ t \notin Punct

\* line[i], or "" past the end of the line
At(line, i) == IF i \in 1..Len(line) THEN line[i] ELSE ""

\* str.count / list.count
RECURSIVE count(_, _)
count(line, c) ==
    IF line = <<>> THEN 0
    ELSE (IF Head(line) = c THEN 1 ELSE 0) + count(Tail(line), c)

\* x in list
In(x, list) == \E i \in 1..Len(list) : list[i] = x

\* set(list)
ToSet(list) == {list[i] : i \in 1..Len(list)}

\* abs(a - b)
AbsDiff(a, b) == IF a >= b THEN a - b ELSE b - a

\* str.split(',') of a token sequence: the fragments between the commas
RECURSIVE SplitComma(_)
SplitComma(toks) ==
    IF ~In(",", toks) THEN <<toks>>
    ELSE LET k == CHOOSE i \in 1..Len(toks) :
                     toks[i] = "," /\ \A j \in 1..(i - 1) : toks[j] # ","
         IN  <<SubSeq(toks, 1, k - 1)>> \o SplitComma(SubSeq(toks, k + 1, Len(toks)))

\* re.search(r'\(([^)]+)\)', line): group 1 of the leftmost match, or None.
\* "(" followed by at least one token other than ")" and then ")".
ParenContent(line) ==
    LET starts == {i \in 1..Len(line) :
                      /\ line[i] = "("
                      /\ At(line, i + 1) \notin {")", ""}
                      /\ \E j \in (i + 2)..Len(line) : line[j] = ")"}
    IN  IF starts = {} THEN None
        ELSE LET i == CHOOSE s \in starts : \A t \in starts : s <= t
                 j == CHOOSE e \in (i + 2)..Len(line) :
                          line[e] = ")" /\ \A f \in (i + 1)..(e - 1) : line[f] # ")"
             IN  SubSeq(line, i + 1, j - 1)

\* re.search(r'\(([^)]*)\)', line): group 1 of the leftmost match, or None.
ParamContent(line) ==
    LET starts == {i \in 1..Len(line) :
                      /\ line[i] = "("
                      /\ \E j \in (i + 1)..Len(line) : line[j] = ")"}
    IN  IF starts = {} THEN None
        ELSE LET i == CHOOSE s \in starts : \A t \in starts : s <= t
                 j == CHOOSE e \in (i + 1)..Len(line) :
                          line[e] = ")" /\ \A f \in (i + 1)..(e - 1) : line[f] # ")"
             IN  SubSeq(line, i + 1, j - 1)

\* ------------------------------------------------------------------------
\* Pattern tables (the ".java" rows, token level)
\* ------------------------------------------------------------------------
AccessWords == {"public", "private", "protected"}

\* CLASS_PATTERNS['.java']: group 1 of the match, or None
\*   ^ [access] [abstract|final] class NAME [extends BASE] [implements I] {
JavaClassMatch(line) ==
    LET p1 == IF At(line, 1) \in AccessWords THEN 2 ELSE 1
        p2 == IF At(line, p1) \in {"abstract", "final"} THEN p1 + 1 ELSE p1
        p3 == p2 + 2
        p4 == IF At(line, p3) = "extends" /\ IsWord(At(line, p3 + 1))
              THEN p3 + 2 ELSE p3
        p5 == IF At(line, p4) = "implements" /\ IsWord(At(line, p4 + 1))
              THEN p4 + 2 ELSE p4
    IN  IF /\ At(line, p2) = "class"
           /\ IsWord(At(line, p2 + 1))
           /\ At(line, p5) = "{"
        THEN At(line, p2 + 1)
        ELSE None

\* FUNCTION_PATTERNS['.java']: group 1 of the match, or None
\*   ^ [access] [static] [TYPE] NAME (
\* The optional parts are tried greedily, as the regex engine does.
JavaFuncMatch(line) ==
    LET Ok(a, s, t) ==
            /\ (a = 1 => At(line, 1) \in AccessWords)
            /\ (s = 1 => At(line, a + 1) = "static")
            /\ (t = 1 => IsWord(At(line, a + s + 1)))
            /\ IsWord(At(line, a + s + t + 1))
            /\ At(line, a + s + t + 2) = "("
        cands == {c \in {0, 1} \X {0, 1} \X {0, 1} : Ok(c[1], c[2], c[3])}
        Rank(c) == 4 * c[1] + 2 * c[2] + c[3]
    IN  IF cands = {} THEN None
        ELSE LET c == CHOOSE x \in cands : \A y \in cands : Rank(y) <= Rank(x)
             IN  At(line, c[1] + c[2] + c[3] + 1)

\* LOOP_PATTERNS['.java']: the loop type of the first matching pattern, or None
JavaLoopMatch(line) ==
    IF At(line, 1) = "for" /\ At(line, 2) = "(" THEN "for"
    ELSE IF At(line, 1) = "while" /\ At(line, 2) = "(" THEN "while"
    ELSE None

\* VARIABLE_PATTERNS['.java']: group 1 of the match, or None
\*   ^ TYPE-WORDS NAME (= | ;)
JavaVarMatch(line) ==
    LET ks == {k \in 2..Len(line) :
                  /\ \A i \in 1..k : IsWord(line[i])
                  /\ At(line, k + 1) \in {"=", ";"}}
    IN  IF ks = {} THEN None
        ELSE line[CHOOSE k \in ks : TRUE]

\* ------------------------------------------------------------------------
\* Paths (sequences of characters)
\* ------------------------------------------------------------------------
ExtJava == <<".", "j", "a", "v", "a">>
ExtPy == <<".", "p", "y">>
ExtC == <<".", "c">>

\* Index of the last occurrence of character c in s, 0 when absent
LastIndex(s, c) ==
    LET is == {i \in 1..Len(s) : s[i] = c}
    IN  IF is = {} THEN 0 ELSE CHOOSE i \in is : \A j \in is : j <= i

\* os.path.basename
basename(path) == SubSeq(path, LastIndex(path, "/") + 1, Len(path))

\* os.path.splitext(path)[1]: from the last dot of the basename, leading
\* dots of the basename not counted
splitext(path) ==
    LET base == basename(path)
        d == LastIndex(base, ".")
    IN  IF d = 0 \/ \A i \in 1..d : base[i] = "." THEN <<>>
        ELSE SubSeq(base, d, Len(base))

\* Python's `a in b` on strings
IsSubstring(a, b) ==
    \E i \in 0..(Len(b) - Len(a)) : SubSeq(b, i + 1, i + Len(a)) = a

\* ------------------------------------------------------------------------
\* Pattern tables (the ".py" rows, token level; used when parsing fails)
\* ------------------------------------------------------------------------
\* Tokens that are written without a blank before them
Glued == {"(", ")", ",", ";"}

\* CLASS_PATTERNS['.py']:  ^ class NAME [( ... )] :
PyClassMatch(line) ==
    LET closes == {j \in 5..Len(line) :
                      line[j] = ")" /\ \A f \in 4..(j - 1) : line[f] # ")"}
        p == IF At(line, 3) = "(" /\ closes # {}
             THEN (CHOOSE j \in closes : TRUE) + 1 ELSE 3
    IN  IF At(line, 1) = "class" /\ IsWord(At(line, 2)) /\ At(line, p) = ":"
        THEN At(line, 2)
        ELSE None

\* FUNCTION_PATTERNS['.py']:  ^ [async] (def | async def) NAME (
PyFuncMatch(line) ==
    LET Ok(p) == At(line, p) = "def" /\ IsWord(At(line, p + 1)) /\ At(line, p + 2) = "("
        ps == {p \in 1..3 : Ok(p) /\ \A i \in 1..(p - 1) : line[i] = "async"}
    IN  IF ps = {} THEN None
        ELSE At(line, (CHOOSE p \in ps : TRUE) + 1)

\* LOOP_PATTERNS['.py']:  ^for\s+ | ^while\s+ | ^async\s+for\s+
PyLoopMatch(line) ==
    LET Spaced(i) == At(line, i) # "" /\ At(line, i) \notin Glued
    IN  IF At(line, 1) = "for" /\ Spaced(2) THEN "for"
        ELSE IF At(line, 1) = "while" /\ Spaced(2) THEN "while"
        ELSE IF At(line, 1) = "async" /\ At(line, 2) = "for" /\ Spaced(3)
             THEN "async_for"
        ELSE None

\* VARIABLE_PATTERNS['.py']:  ^ NAME =   |   ^ NAME : TYPE
PyVarMatch(line) ==
    IF IsWord(At(line, 1)) /\ At(line, 2) = "=" THEN At(line, 1)
    ELSE IF IsWord(At(line, 1)) /\ At(line, 2) = ":" /\ IsWord(At(line, 3))
         THEN At(line, 1)
    ELSE None

\* CLASS_PATTERNS['.c']:  ^ typedef struct NAME
CClassMatch(line) ==
    IF At(line, 1) = "typedef" /\ At(line, 2) = "struct" /\ IsWord(At(line, 3))
    THEN At(line, 3)
    ELSE None

\* FUNCTION_PATTERNS['.c']:  ^ [WORDS] NAME (
\* Only words can stand before the parenthesis, so the name is the word
\* before the first one.
CFuncMatch(line) ==
    LET ps == {p \in 2..Len(line) : line[p] = "(" /\ \A i \in 1..(p - 1) : IsWord(line[i])}
    IN  IF ps = {} THEN None
        ELSE line[(CHOOSE p \in ps : TRUE) - 1]

\* The extensions with a row in the tables; the rows of '.c' for loops and
\* variables match the token lines the rows of '.java' match
CLASS_PATTERNS == {ExtPy, ExtJava, ExtC}
FUNCTION_PATTERNS == {ExtPy, ExtJava, ExtC}
LOOP_PATTERNS == {ExtPy, ExtJava, ExtC}
VARIABLE_PATTERNS == {ExtPy, ExtJava, ExtC}

\* re.search(CLASS_PATTERNS[ext], line): group 1 or None
ClassMatch(ext, line) ==
    IF ext = ExtJava THEN JavaClassMatch(line)
    ELSE IF ext = ExtC THEN CClassMatch(line)
    ELSE PyClassMatch(line)

\* re.search(FUNCTION_PATTERNS[ext], line): the function name or None
FuncMatch(ext, line) ==
    IF ext = ExtJava THEN JavaFuncMatch(line)
    ELSE IF ext = ExtC THEN CFuncMatch(line)
    ELSE PyFuncMatch(line)

\* first matching pattern of LOOP_PATTERNS[ext]: its loop type or None
LoopMatch(ext, line) ==
    IF ext \in {ExtJava, ExtC} THEN JavaLoopMatch(line) ELSE PyLoopMatch(line)

\* first matching pattern of VARIABLE_PATTERNS[ext]: group 1 or None
VarMatch(ext, line) ==
    IF ext \in {ExtJava, ExtC} THEN JavaVarMatch(line) ELSE PyVarMatch(line)

\* ------------------------------------------------------------------------
\* CodeStructure and the heuristic extractor (analyze_file_with_regex)
\* ------------------------------------------------------------------------
HeurWindow == 5

\* CodeStructure.__init__
CodeStructure(file_path) ==
    [file_path |-> file_path, classes |-> <<>>, functions |-> <<>>,
     variables |-> <<>>, loops |-> <<>>, imports |-> <<>>,
     class_usage |-> <<>>, function_variable_usage |-> <<>>]

\* The frame of analyze_file_with_regex before its loop.  current_class is
\* an index into structure.classes (1-based), 0 for None.
RegexFrame(file_path, content) ==
    [structure |-> CodeStructure(file_path), ext |-> splitext(file_path),
     lines |-> content, line_num |-> 1,
     current_class |-> 0, in_class |-> FALSE, brace_count |-> 0]

\* The inheritance list of a matched class line
Inheritance(line) ==
    IF In("(", line) /\ In(")", line) /\ ParenContent(line) # None
    THEN SplitComma(ParenContent(line))
    ELSE <<>>

\* The parameter list of a matched function line
Parameters(line) ==
    IF ParamContent(line) = None THEN <<>>
    ELSE LET frags == SelectSeq(SplitComma(ParamContent(line)), LAMBDA p : p # <<>>)
         IN  [i \in 1..Len(frags) |-> Head(frags[i])]

\* "Extract classes" (lines 356-377)
ScanClass(f, line) ==
    LET name == IF f.ext \in CLASS_PATTERNS THEN ClassMatch(f.ext, line) ELSE None
        rec == [name |-> name, line |-> f.line_num, methods |-> <<>>,
                members |-> <<>>, inheritance |-> Inheritance(line), loc |-> 0]
    IN  IF name = None THEN f
        ELSE [f EXCEPT !.structure.classes = Append(@, rec),
                       !.current_class = Len(f.structure.classes) + 1,
                       !.in_class = TRUE,
                       !.brace_count = count(line, "{") - count(line, "}")]

\* "Extract functions" with every matched name appended to functions
ScanFunctionUnrouted(f, line) ==
    LET name == IF f.ext \in FUNCTION_PATTERNS THEN FuncMatch(f.ext, line) ELSE None
    IN  IF name = None THEN f
        ELSE [f EXCEPT !.structure.functions =
                           Append(@, [name |-> name, line |-> f.line_num,
                                      parameters |-> Parameters(line),
                                      async |-> In("async", line)])]

\* "Extract functions" (lines 380-404)
ScanFunction(f, line) ==
    LET name == IF f.ext \in FUNCTION_PATTERNS THEN FuncMatch(f.ext, line) ELSE None
        func_info == [name |-> name, line |-> f.line_num,
                      parameters |-> Parameters(line), async |-> In("async", line)]
    IN  IF name = None THEN f
        ELSE IF f.in_class /\ f.current_class # 0
        THEN [f EXCEPT !.structure.classes[f.current_class].methods = Append(@, name)]
        ELSE [f EXCEPT !.structure.functions = Append(@, func_info)]

\* "Extract loops" (lines 407-417)
ScanLoop(f, line) ==
    LET type == IF f.ext \in LOOP_PATTERNS THEN LoopMatch(f.ext, line) ELSE None
    IN  IF type = None THEN f
        ELSE [f EXCEPT !.structure.loops = Append(@, [type |-> type, line |-> f.line_num])]

\* "Extract variables" (lines 420-438)
ScanVariable(f, line) ==
    LET name == IF f.ext \in VARIABLE_PATTERNS THEN VarMatch(f.ext, line) ELSE None
        vars_ == f.structure.variables
    IN  IF name = None \/ name \in {"if", "for", "while", "class", "def", "function"}
        THEN f
        ELSE IF f.in_class /\ f.current_class # 0
        THEN IF In(name, f.structure.classes[f.current_class].members) THEN f
             ELSE [f EXCEPT !.structure.classes[f.current_class].members = Append(@, name)]
        ELSE IF \E i \in 1..Len(vars_) :
                    vars_[i].name = name /\ AbsDiff(vars_[i].line, f.line_num) < HeurWindow
             THEN f
             ELSE [f EXCEPT !.structure.variables =
                                Append(@, [name |-> name, line |-> f.line_num])]

\* "Track class scope with braces" (lines 441-445)
ScanScope(f, line) ==
    IF ~f.in_class THEN f
    ELSE LET bc == f.brace_count + count(line, "{") - count(line, "}")
         IN  IF bc <= 0
             THEN [f EXCEPT !.brace_count = bc, !.in_class = FALSE, !.current_class = 0]
             ELSE [f EXCEPT !.brace_count = bc]

\* One iteration of the loop over the lines (lines 352-445)
ScanLine(f) ==
    LET line == f.lines[f.line_num]
        g == ScanScope(ScanVariable(ScanLoop(ScanFunction(ScanClass(f, line), line), line), line), line)
    IN  [g EXCEPT !.line_num = f.line_num + 1]

\* The loop run to its end
RECURSIVE ScanAll(_)
ScanAll(f) == IF f.line_num > Len(f.lines) THEN f ELSE ScanAll(ScanLine(f))

\* analyze_file_with_regex(file_path, content): the returned CodeStructure
analyze_file_with_regex(file_path, content) ==
    LET f == RegexFrame(file_path, content)
    IN  IF f.ext \notin CLASS_PATTERNS /\ f.ext \notin FUNCTION_PATTERNS
        THEN f.structure
        ELSE ScanAll(f).structure

\* ------------------------------------------------------------------------
\* The precise extractor (NodeVisitor over the syntax tree)
\*
\* A syntax-tree node is a record; the fields a node type does not have are
\* empty.  `value`, `annotation` hold zero or one expression node.
\* ------------------------------------------------------------------------
PreciseWindow == 10

Node ==
    [type |-> "", name |-> "", lineno |-> 0, bases |-> <<>>, body |-> <<>>,
     targets |-> <<>>, annotation |-> <<>>, value |-> <<>>, id |-> "",
     attr |-> "", ctx |-> "", params |-> <<>>, names |-> <<>>]

FunctionTypes == {"FunctionDef", "AsyncFunctionDef"}

\* ast.iter_child_nodes(node): the children generic_visit visits, in order
\* (the argument list and the import aliases hold no node with a visitor)
Children(node) ==
    IF node.type = "ClassDef" THEN node.bases \o node.body
    ELSE IF node.type = "AnnAssign" THEN node.targets \o node.annotation \o node.value
    ELSE node.targets \o node.value \o node.body

\* target is `self.<attr>`
IsSelfAttr(target) ==
    /\ target.type = "Attribute"
    /\ Len(target.value) = 1
    /\ target.value[1].type = "Name"
    /\ target.value[1].id = "self"

\* list.append(x) unless x is in the list
AppendNew(list, x) == IF In(x, list) THEN list ELSE Append(list, x)

\* members after the targets of one Assign / AnnAssign of the class body
RECURSIVE MembersOfTargets(_, _)
MembersOfTargets(members, targets) ==
    IF targets = <<>> THEN members
    ELSE LET t == Head(targets)
             m == IF t.type = "Name" THEN AppendNew(members, t.id)
                  ELSE IF IsSelfAttr(t) THEN AppendNew(members, t.attr)
                  ELSE members
         IN  MembersOfTargets(m, Tail(targets))

\* The loop over node.body of visit_ClassDef (lines 116-133): the pair
\* <<methods, members>> after the items of `body`
RECURSIVE ClassBodyScan(_, _, _)
ClassBodyScan(methods, members, body) ==
    IF body = <<>> THEN <<methods, members>>
    ELSE LET item == Head(body)
         IN  IF item.type \in FunctionTypes
             THEN ClassBodyScan(Append(methods, item.name), members, Tail(body))
             ELSE IF item.type \in {"Assign", "AnnAssign"}
             THEN ClassBodyScan(methods, MembersOfTargets(members, item.targets), Tail(body))
             ELSE ClassBodyScan(methods, members, Tail(body))

\* The bases of visit_ClassDef (lines 100-108); a base that is not a plain
\* name is unparsed to its text, held in the node's name field
Bases(node) ==
    [i \in 1..Len(node.bases) |->
        IF node.bases[i].type = "Name" THEN node.bases[i].id ELSE node.bases[i].name]

\* Work items of the traversal: visit a node, or run the tail of a visit_*
\* method after its generic_visit returned
VisitItem(node) == [op |-> "visit", node |-> node, old |-> None]
LeaveItem(op, old) == [op |-> op, node |-> Node, old |-> old]

VisitItems(nodes) == [i \in 1..Len(nodes) |-> VisitItem(nodes[i])]

\* NodeVisitor.__init__, and visitor.visit(tree) about to run; `tree` is the
\* local of analyze_python_file that holds the parsed module
NodeVisitor(structure, tree) ==
    [structure |-> structure, current_class |-> None, class_stack |-> <<>>,
     current_function |-> None, function_stack |-> <<>>,
     class_members_cache |-> <<>>, tree |-> tree, todo |-> <<VisitItem(tree)>>]

\* dict[key] = value
Put(dict, key, value) == [k \in DOMAIN dict \cup {key} |-> IF k = key THEN value ELSE dict[k]]

\* generic_visit(node): the children are visited next, before `after`
GenericVisit(v, node, after) ==
    [v EXCEPT !.todo = VisitItems(Children(node)) \o after \o Tail(v.todo)]

\* visit_ClassDef up to and including generic_visit (lines 95-148)
visit_ClassDef(v, node) ==
    LET mm == ClassBodyScan(<<>>, <<>>, node.body)
        rec == [name |-> node.name, line |-> node.lineno, methods |-> mm[1],
                members |-> mm[2], inheritance |-> Bases(node),
                loc |-> Len(SelectSeq(node.body, LAMBDA n : n.type \notin {"Expr", "Pass"}))]
        w == [v EXCEPT !.structure.classes = Append(@, rec),
                       !.current_class = node.name,
                       !.class_stack = Append(@, node.name),
                       !.class_members_cache = Put(@, node.name, mm[2])]
    IN  GenericVisit(w, node, <<LeaveItem("leave_class", v.current_class)>>)

\* visit_ClassDef after generic_visit (lines 150-153)
leave_ClassDef(v, old_class) ==
    [v EXCEPT !.current_class = old_class,
              !.class_stack = IF @ # <<>> THEN SubSeq(@, 1, Len(@) - 1) ELSE @,
              !.todo = Tail(@)]

\* visit_FunctionDef / visit_AsyncFunctionDef up to generic_visit
\* (lines 155-175, 182-202).  "Class.method" is held as <<Class, method>>,
\* a bare function name as <<name>>.
visit_FunctionDef(v, node) ==
    LET func_full_name == IF v.current_class # None
                          THEN <<v.current_class, node.name>> ELSE <<node.name>>
        func_info == [name |-> node.name, line |-> node.lineno,
                      parameters |-> node.params,
                      async |-> (node.type = "AsyncFunctionDef")]
        w == [v EXCEPT !.structure.functions =
                           IF v.current_class = None THEN Append(@, func_info) ELSE @,
                       !.current_function = func_full_name,
                       !.function_stack = Append(@, func_full_name)]
    IN  GenericVisit(w, node, <<LeaveItem("leave_function", v.current_function)>>)

\* visit_FunctionDef after generic_visit (lines 177-180, 204-207)
leave_FunctionDef(v, old_function) ==
    [v EXCEPT !.current_function = old_function,
              !.function_stack = IF @ # <<>> THEN SubSeq(@, 1, Len(@) - 1) ELSE @,
              !.todo = Tail(@)]

\* visit_Import / visit_ImportFrom (lines 209-217)
visit_Import(v, node) ==
    LET w == [v EXCEPT !.structure.imports =
                  IF node.type = "Import" THEN @ \o node.names
                  ELSE IF node.name # None THEN Append(@, node.name) ELSE @]
    IN  GenericVisit(w, node, <<>>)

\* visit_For / visit_AsyncFor / visit_While (lines 219-238)
visit_Loop(v, node) ==
    LET type == IF node.type = "For" THEN "for"
                ELSE IF node.type = "AsyncFor" THEN "async_for" ELSE "while"
        w == [v EXCEPT !.structure.loops = Append(@, [type |-> type, line |-> node.lineno])]
    IN  GenericVisit(w, node, <<>>)

\* variables after one assignment target (lines 244-251, 256-262)
AddVariable(variables, name, lineno) ==
    IF \E i \in 1..Len(variables) :
           variables[i].name = name /\ AbsDiff(variables[i].line, lineno) < PreciseWindow
    THEN variables
    ELSE Append(variables, [name |-> name, line |-> lineno])

RECURSIVE AddTargets(_, _, _)
AddTargets(variables, targets, lineno) ==
    IF targets = <<>> THEN variables
    ELSE AddTargets(IF Head(targets).type = "Name"
                    THEN AddVariable(variables, Head(targets).id, lineno)
                    ELSE variables,
                    Tail(targets), lineno)

\* visit_Assign / visit_AnnAssign (lines 240-263)
visit_Assign(v, node) ==
    LET w == IF v.current_class = None
             THEN [v EXCEPT !.structure.variables = AddTargets(@, node.targets, node.lineno)]
             ELSE v
    IN  GenericVisit(w, node, <<>>)

SkippedNames ==
    {"self", "cls", "True", "False", "None", "print", "len", "str", "int",
     "list", "dict", "set", "tuple"}

\* function_variable_usage[current_function] after the duplicate test and
\* the append of lines 295-297 / 316-318
AddUsage(usage, func, var_name, lineno, var_type) ==
    LET list == IF func \in DOMAIN usage THEN usage[func] ELSE <<>>
        dup == \E i \in 1..Len(list) : list[i].var = var_name /\ list[i].line = lineno
    IN  Put(usage, func,
            IF dup THEN list
            ELSE Append(list, [var |-> var_name, line |-> lineno, type |-> var_type]))

\* visit_Name (lines 265-299)
visit_Name(v, node) ==
    LET var_name == node.id
        class_members == IF v.current_class \in DOMAIN v.class_members_cache
                         THEN v.class_members_cache[v.current_class] ELSE <<>>
        var_type ==
            IF v.current_class # None
            THEN IF In(var_name, class_members) THEN "member"
                 ELSE IF \E i \in 1..Len(v.structure.variables) :
                             v.structure.variables[i].name = var_name
                      THEN "global" ELSE "local"
            ELSE "local"
        w == IF /\ v.current_function # None
                /\ node.ctx \in {"Load", "Store"}
                /\ var_name \notin SkippedNames
             THEN [v EXCEPT !.structure.function_variable_usage =
                       AddUsage(@, v.current_function, var_name, node.lineno, var_type)]
             ELSE v
    IN  GenericVisit(w, node, <<>>)

\* visit_Attribute (lines 301-320)
visit_Attribute(v, node) ==
    LET w == IF /\ v.current_function # None
                /\ node.ctx \in {"Load", "Store"}
                /\ IsSelfAttr(node)
             THEN [v EXCEPT !.structure.function_variable_usage =
                       AddUsage(@, v.current_function, node.attr, node.lineno, "member")]
             ELSE v
    IN  GenericVisit(w, node, <<>>)

LoopTypes == {"For", "AsyncFor", "While"}
AssignTypes == {"Assign", "AnnAssign"}
ImportTypes == {"Import", "ImportFrom"}
VisitedTypes ==
    {"ClassDef", "Name", "Attribute"} \cup FunctionTypes \cup LoopTypes
        \cup AssignTypes \cup ImportTypes

\* One step of the traversal: the top work item
VisitStep(v) ==
    LET item == Head(v.todo)
        node == item.node
    IN  IF item.op = "leave_class" THEN leave_ClassDef(v, item.old)
        ELSE IF item.op = "leave_function" THEN leave_FunctionDef(v, item.old)
        ELSE IF node.type = "ClassDef" THEN visit_ClassDef(v, node)
        ELSE IF node.type \in FunctionTypes THEN visit_FunctionDef(v, node)
        ELSE IF node.type \in ImportTypes THEN visit_Import(v, node)
        ELSE IF node.type \in LoopTypes THEN visit_Loop(v, node)
        ELSE IF node.type \in AssignTypes THEN visit_Assign(v, node)
        ELSE IF node.type = "Name" THEN visit_Name(v, node)
        ELSE IF node.type = "Attribute" THEN visit_Attribute(v, node)
        ELSE GenericVisit(v, node, <<>>)

\* visitor.visit(tree) run to its end
RECURSIVE VisitAll(_)
VisitAll(v) == IF v.todo = <<>> THEN v ELSE VisitAll(VisitStep(v))

\* ------------------------------------------------------------------------
\* Syntax trees: constructors and the blocks the input modules are made of
\* ------------------------------------------------------------------------
NameNode(id, ctx, l) == [Node EXCEPT !.type = "Name", !.id = id, !.ctx = ctx, !.lineno = l]

SelfAttr(attr, ctx, l) ==
    [Node EXCEPT !.type = "Attribute", !.attr = attr, !.ctx = ctx, !.lineno = l,
                 !.value = <<NameNode("self", "Load", l)>>]

Constant(l) == [Node EXCEPT !.type = "Constant", !.lineno = l]

AssignNode(targets, value, l) ==
    [Node EXCEPT !.type = "Assign", !.targets = targets, !.value = <<value>>, !.lineno = l]

AnnAssignNode(target, annotation, value, l) ==
    [Node EXCEPT !.type = "AnnAssign", !.targets = <<target>>,
                 !.annotation = <<annotation>>, !.value = <<value>>, !.lineno = l]

ReturnNode(value, l) == [Node EXCEPT !.type = "Return", !.value = <<value>>, !.lineno = l]

PassNode(l) == [Node EXCEPT !.type = "Pass", !.lineno = l]

FunctionDefNode(type, name, params, body, l) ==
    [Node EXCEPT !.type = type, !.name = name, !.params = params, !.body = body, !.lineno = l]

ClassDefNode(name, bases, body, l) ==
    [Node EXCEPT !.type = "ClassDef", !.name = name, !.bases = bases, !.body = body, !.lineno = l]

ModuleNode(body) == [Node EXCEPT !.type = "Module", !.body = body]

BlockPool ==
    {"classA", "classP", "classS", "global", "annot", "func", "import", "loop", "agen"}

\* Lines of source text of a block
Height(b) ==
    IF b = "classA" THEN 5
    ELSE IF b = "classP" THEN 6
    ELSE IF b \in {"classS", "func", "agen"} THEN 3
    ELSE IF b = "loop" THEN 2
    ELSE 1

\* The statement a block parses to when it starts at line l
Block(b, l) ==
    IF b = "classA" THEN
        \* class A:
        \*   def __init__(self):
        \*     self.x = 1
        \*   def get(self):
        \*     return self.x
        ClassDefNode("A", <<>>,
            <<FunctionDefNode("FunctionDef", "__init__", <<"self">>,
                  <<AssignNode(<<SelfAttr("x", "Store", l + 2)>>, Constant(l + 2), l + 2)>>,
                  l + 1),
              FunctionDefNode("FunctionDef", "get", <<"self">>,
                  <<ReturnNode(SelfAttr("x", "Load", l + 4), l + 4)>>, l + 3)>>, l)
    ELSE IF b = "classP" THEN
        \* class P(Base):
        \*   count = 0
        \*   def val(self):
        \*     return count
        \*   def val(self, v):
        \*     self.count = v
        ClassDefNode("P", <<NameNode("Base", "Load", l)>>,
            <<AssignNode(<<NameNode("count", "Store", l + 1)>>, Constant(l + 1), l + 1),
              FunctionDefNode("FunctionDef", "val", <<"self">>,
                  <<ReturnNode(NameNode("count", "Load", l + 3), l + 3)>>, l + 2),
              FunctionDefNode("FunctionDef", "val", <<"self", "v">>,
                  <<AssignNode(<<SelfAttr("count", "Store", l + 5)>>,
                               NameNode("v", "Load", l + 5), l + 5)>>, l + 4)>>, l)
    ELSE IF b = "classS" THEN
        \* class S:
        \*   def swap(self):
        \*     x = self.x
        ClassDefNode("S", <<>>,
            <<FunctionDefNode("FunctionDef", "swap", <<"self">>,
                  <<AssignNode(<<NameNode("x", "Store", l + 2)>>,
                               SelfAttr("x", "Load", l + 2), l + 2)>>, l + 1)>>, l)
    ELSE IF b = "global" THEN
        \* g = 1
        AssignNode(<<NameNode("g", "Store", l)>>, Constant(l), l)
    ELSE IF b = "annot" THEN
        \* g: int = 1
        AnnAssignNode(NameNode("g", "Store", l), NameNode("int", "Load", l), Constant(l), l)
    ELSE IF b = "func" THEN
        \* def f(a):
        \*   y = g
        \*   return y
        FunctionDefNode("FunctionDef", "f", <<"a">>,
            <<AssignNode(<<NameNode("y", "Store", l + 1)>>, NameNode("g", "Load", l + 1), l + 1),
              ReturnNode(NameNode("y", "Load", l + 2), l + 2)>>, l)
    ELSE IF b = "import" THEN
        \* import os
        [Node EXCEPT !.type = "Import", !.names = <<"os">>, !.lineno = l]
    ELSE IF b = "loop" THEN
        \* for i in g:
        \*   pass
        [Node EXCEPT !.type = "For", !.targets = <<NameNode("i", "Store", l)>>,
                     !.value = <<NameNode("g", "Load", l)>>,
                     !.body = <<PassNode(l + 1)>>, !.lineno = l]
    ELSE
        \* async def go():
        \*   while g:
        \*     pass
        FunctionDefNode("AsyncFunctionDef", "go", <<>>,
            <<[Node EXCEPT !.type = "While", !.value = <<NameNode("g", "Load", l + 1)>>,
                           !.body = <<PassNode(l + 2)>>, !.lineno = l + 1]>>, l)

\* The module body of a sequence of blocks, the first starting at line l
RECURSIVE Layout(_, _)
Layout(blocks, l) ==
    IF blocks = <<>> THEN <<>>
    ELSE <<Block(Head(blocks), l)>> \o Layout(Tail(blocks), l + Height(Head(blocks)))

\* ast.parse of the text of a sequence of blocks
ParseBlocks(blocks) == ModuleNode(Layout(blocks, 1))

\* ------------------------------------------------------------------------
\* The dependency analyzer (analyze_dependencies), character level
\* ------------------------------------------------------------------------
ExtCpp == <<".", "c", "p", "p">>

Letters ==
    {"a", "b", "c", "d", "e", "f", "g", "h", "i", "j", "k", "l", "m", "n", "o",
     "p", "q", "r", "s", "t", "u", "v", "w", "x", "y", "z"}
Digits == {"0", "1", "2", "3", "4", "5", "6", "7", "8", "9"}
WordChars == Letters \cup Digits \cup {"_"}
Whitespace == {" ", "\n", "\t"}

FROMKW == <<"f", "r", "o", "m">>
IMPORTKW == <<"i", "m", "p", "o", "r", "t">>
INCLUDEKW == <<"#", "i", "n", "c", "l", "u", "d", "e">>

\* The rows of DEPENDENCY_PATTERNS for .py, .c and .cpp, each of the shape
\*   keyword \s+ [open] (class+) [close]
\* `open` and `close` are empty when the row has no delimiter.  NoPattern is
\* what DEPENDENCY_PATTERNS.get returns for an extension without a row.
NoPattern == [keywords |-> <<>>, open |-> {}, class |-> {}, close |-> {}]

DEPENDENCY_PATTERNS(ext) ==
    IF ext = ExtPy THEN
        \* (?:from|import)\s+([\w\.]+)
        [keywords |-> <<FROMKW, IMPORTKW>>, open |-> {},
         class |-> WordChars \cup {"."}, close |-> {}]
    ELSE IF ext \in {ExtC, ExtCpp} THEN
        \* #include\s+["<]([\w\/\.]+)[">]
        [keywords |-> <<INCLUDEKW>>, open |-> {"\"", "<"},
         class |-> WordChars \cup {"/", "."}, close |-> {"\"", ">"}]
    ELSE NoPattern

\* The first index k >= i with s[k] not in `class` (Len(s) + 1 when none)
RunEnd(s, i, class) ==
    LET stops == {k \in i..Len(s) : s[k] \notin class}
    IN  IF stops = {} THEN Len(s) + 1
        ELSE CHOOSE k \in stops : \A m \in stops : k <= m

\* s has the characters of kw at index i
HasAt(s, i, kw) == i + Len(kw) - 1 <= Len(s) /\ SubSeq(s, i, i + Len(kw) - 1) = kw

\* A match of the pattern starting at index i: <<group 1, index after the
\* match>>, or None
MatchAt(pattern, s, i) ==
    LET ks == {k \in 1..Len(pattern.keywords) : HasAt(s, i, pattern.keywords[k])}
    IN  IF ks = {} THEN None
        ELSE LET kw == pattern.keywords[CHOOSE k \in ks : \A m \in ks : k <= m]
                 w == i + Len(kw)
                 o == RunEnd(s, w, Whitespace)
                 b == IF pattern.open = {} THEN o ELSE o + 1
                 e == RunEnd(s, b, pattern.class)
             IN  IF /\ o > w
                    /\ (pattern.open # {} => At(s, o) \in pattern.open)
                    /\ e > b
                    /\ (pattern.close # {} => At(s, e) \in pattern.close)
                 THEN <<SubSeq(s, b, e - 1), IF pattern.close = {} THEN e ELSE e + 1>>
                 ELSE None

\* re.findall(pattern, content), scanning from index i
RECURSIVE findall(_, _, _)
findall(pattern, content, i) ==
    IF i > Len(content) THEN <<>>
    ELSE LET m == MatchAt(pattern, content, i)
         IN  IF m = None THEN findall(pattern, content, i + 1)
             ELSE <<m[1]>> \o findall(pattern, content, m[2])

\* Resolve with the `break` of line 61 after the last match instead of the
\* first
ResolveLastMatch(order, path, dep) ==
    LET hits == {k \in 1..Len(order) :
                    /\ IsSubstring(dep, order[k]) \/ IsSubstring(basename(dep), order[k])
                    /\ order[k] # path}
    IN  IF hits = {} THEN None
        ELSE order[CHOOSE k \in hits : \A m \in hits : m <= k]

\* The inner loop of lines 57-61: the first path of the mapping, other than
\* `path`, that contains dep or its basename; None when there is none
Resolve(order, path, dep) ==
    LET hits == {k \in 1..Len(order) :
                    /\ IsSubstring(dep, order[k]) \/ IsSubstring(basename(dep), order[k])
                    /\ order[k] # path}
    IN  IF hits = {} THEN None
        ELSE order[CHOOSE k \in hits : \A m \in hits : k <= m]

\* fan_out_map[path] after the loop of lines 55-61 over the dependencies in
\* the order `deps`
RECURSIVE ResolveAll(_, _, _)
ResolveAll(order, path, deps) ==
    IF deps = <<>> THEN <<>>
    ELSE LET t == Resolve(order, path, Head(deps))
         IN  (IF t = None THEN <<>> ELSE <<t>>) \o ResolveAll(order, path, Tail(deps))

\* The orders in which a set can be iterated
Orders(S) == {q \in [1..Cardinality(S) -> S] : \A i, j \in 1..Cardinality(S) : q[i] = q[j] => i = j}

\* FanInMap with `targets` in place of `set(targets)` at line 69
FanInMapNoSet(order, fom) ==
    [t \in ToSet(order) |->
        Cardinality({<<p, i>> \in ToSet(order) \X (1..Len(order)) :
                        i <= Len(fom[p]) /\ fom[p][i] = t})]

\* Lines 67-70: fan_in_map
FanInMap(order, fom) ==
    [t \in ToSet(order) |-> Cardinality({p \in ToSet(order) : t \in ToSet(fom[p])})]

\* ------------------------------------------------------------------------
\* The text of a file, as the usage tracker searches it
\* ------------------------------------------------------------------------
\* The characters of each token, in lower case (the searches of the usage
\* tracker are made with re.IGNORECASE)
Spelling ==
    ("class" :> <<"c", "l", "a", "s", "s">>) @@
    ("Widget" :> <<"w", "i", "d", "g", "e", "t">>) @@
    ("Gadget" :> <<"g", "a", "d", "g", "e", "t">>) @@
    ("Zed" :> <<"z", "e", "d">>) @@
    ("A" :> <<"a">>) @@
    ("extends" :> <<"e", "x", "t", "e", "n", "d", "s">>) @@
    ("new" :> <<"n", "e", "w">>) @@
    ("int" :> <<"i", "n", "t">>) @@
    ("count" :> <<"c", "o", "u", "n", "t">>) @@
    ("void" :> <<"v", "o", "i", "d">>) @@
    ("run" :> <<"r", "u", "n">>) @@
    ("w" :> <<"w">>) @@
    ("def" :> <<"d", "e", "f">>) @@
    ("__init__" :> <<"_", "_", "i", "n", "i", "t", "_", "_">>) @@
    ("self" :> <<"s", "e", "l", "f">>) @@
    ("self.x" :> <<"s", "e", "l", "f", ".", "x">>) @@
    ("get" :> <<"g", "e", "t">>) @@
    ("return" :> <<"r", "e", "t", "u", "r", "n">>) @@
    ("1" :> <<"1">>) @@
    ("pass" :> <<"p", "a", "s", "s">>) @@
    ("  " :> <<" ", " ">>) @@
    ("    " :> <<" ", " ", " ", " ">>) @@
    ("Ka" :> <<"k", "a">>) @@
    ("Kb" :> <<"k", "b">>) @@
    ("Kc" :> <<"k", "c">>) @@
    ("Kd" :> <<"k", "d">>) @@
    ("Ke" :> <<"k", "e">>) @@
    ("Kf" :> <<"k", "f">>) @@
    ("Kg" :> <<"k", "g">>) @@
    ("Kh" :> <<"k", "h">>) @@
    ("Ki" :> <<"k", "i">>) @@
    ("Kj" :> <<"k", "j">>) @@
    ("Kk" :> <<"k", "k">>) @@
    ("{" :> <<"{">>) @@
    ("}" :> <<"}">>) @@
    ("(" :> <<"(">>) @@
    (")" :> <<")">>) @@
    ("," :> <<",">>) @@
    (";" :> <<";">>) @@
    ("=" :> <<"=">>) @@
    (":" :> <<":">>)

Spell(tok) == Spelling[tok]

\* The characters of a line: a blank between two tokens unless one of them
\* is written without blanks around it
RECURSIVE LineText(_)
LineText(line) ==
    IF line = <<>> THEN <<>>
    ELSE IF Len(line) = 1 THEN Spell(line[1])
    ELSE Spell(line[1])
             \o (IF line[1] \in Glued \/ line[2] \in Glued THEN <<>> ELSE <<" ">>)
             \o LineText(Tail(line))

\* The characters of a file: its lines joined by newlines
RECURSIVE Text(_)
Text(lines) ==
    IF lines = <<>> THEN <<>>
    ELSE IF Len(lines) = 1 THEN LineText(lines[1])
    ELSE LineText(lines[1]) \o <<"\n">> \o Text(Tail(lines))

\* Elements of the reference patterns
Lit(chars) == [k |-> "lit", s |-> chars]           \* literal text
AnyRun == [k |-> "any", s |-> <<>>]                \* .*
Ws0 == [k |-> "ws0", s |-> <<>>]                   \* \s*
Ws1 == [k |-> "ws1", s |-> <<>>]                   \* \s+
WordBoundary == [k |-> "wb", s |-> <<>>]           \* \b
OneOf(chars) == [k |-> "set", s |-> chars]         \* [...]

\* The first index k >= i that holds a newline (Len(text) + 1 when none):
\* as far as `.*` can reach
LineEnd(text, i) ==
    LET stops == {k \in i..Len(text) : text[k] = "\n"}
    IN  IF stops = {} THEN Len(text) + 1
        ELSE CHOOSE k \in stops : \A m \in stops : k <= m

\* The pattern matches the text from index i on
RECURSIVE MatchFrom(_, _, _)
MatchFrom(elems, text, i) ==
    IF elems = <<>> THEN TRUE
    ELSE LET e == Head(elems)
             rest == Tail(elems)
         IN  IF e.k = "lit" THEN HasAt(text, i, e.s) /\ MatchFrom(rest, text, i + Len(e.s))
             ELSE IF e.k = "any"
             THEN \E j \in i..LineEnd(text, i) : MatchFrom(rest, text, j)
             ELSE IF e.k = "ws0"
             THEN \E j \in i..RunEnd(text, i, Whitespace) : MatchFrom(rest, text, j)
             ELSE IF e.k = "ws1"
             THEN \E j \in (i + 1)..RunEnd(text, i, Whitespace) : MatchFrom(rest, text, j)
             ELSE IF e.k = "wb"
             THEN /\ (At(text, i - 1) \in WordChars) # (At(text, i) \in WordChars)
                  /\ MatchFrom(rest, text, i)
             ELSE At(text, i) \in ToSet(e.s) /\ MatchFrom(rest, text, i + 1)

\* re.search(pattern, content, re.IGNORECASE) finds a match
Search(elems, text) == \E i \in 1..(Len(text) + 1) : MatchFrom(elems, text, i)

IMPORTLIT == <<"i", "m", "p", "o", "r", "t">>
FROMLIT == <<"f", "r", "o", "m">>
NEWLIT == <<"n", "e", "w">>
EXTENDSLIT == <<"e", "x", "t", "e", "n", "d", "s">>

\* The seven reference patterns for a class name (lines 475-483)
ReferencePatterns(class_name) ==
    LET c == Lit(Spell(class_name))
    IN  << <<Lit(IMPORTLIT), AnyRun, c>>,
           <<Lit(FROMLIT), AnyRun, Lit(IMPORTLIT), AnyRun, c>>,
           <<WordBoundary, c, Ws0, Lit(<<"(">>)>>,
           <<WordBoundary, c, Ws0, OneOf(<<"=", ":">>)>>,
           <<Lit(NEWLIT), Ws1, c>>,
           <<Lit(EXTENDSLIT), Ws1, c>>,
           <<Lit(<<":">>), Ws0, c>> >>

\* Lines 485-488: some reference pattern for class_name matches the text
References(text, class_name) ==
    \E k \in 1..Len(ReferencePatterns(class_name)) :
        Search(ReferencePatterns(class_name)[k], text)

\* ------------------------------------------------------------------------
\* Specification of the heuristic extractor, one line per step
\* ------------------------------------------------------------------------
MaxLines == 4

PathAJava == <<"a", ".", "j", "a", "v", "a">>
PathBJava == <<"b", ".", "j", "a", "v", "a">>
PathAPy == <<"a", ".", "p", "y">>
PathReadme == <<"r", ".", "m", "d">>
PathMC == <<"m", ".", "c">>

\* Lines of a brace language
LineClassExtends == <<"class", "Foo", "extends", "Bar", "{">>
LineField == <<"int", "count", ";">>
LineClose == <<"}">>
LineMethod == <<"void", "run", "(", ")", "{">>
LineOverload == <<"void", "run", "(", "int", "a", ")", "{", "}">>
LineClassEmpty == <<"public", "class", "Baz", "{", "}">>
LineWhile == <<"while", "(", "count", ")", "{", "}">>
LineStructFunc == <<"typedef", "struct", "Foo", "run", "(", ")", ";">>

ScanLinePool ==
    {LineClassExtends, LineField, LineClose, LineMethod, LineOverload,
     LineClassEmpty, LineWhile, LineStructFunc}

ScanPathPool == {PathAJava, PathMC, PathReadme}

\* All sequences over S of length at most n
SeqsUpTo(S, n) == UNION {[1..k -> S] : k \in 0..n}

\* The values of the variables of an extractor that is not running
ScanIdle == RegexFrame(<<>>, <<>>)
VisitorIdle == [NodeVisitor(CodeStructure(<<>>), ModuleNode(<<>>)) EXCEPT !.todo = <<>>]

DepIdle ==
    /\ all_file_data = [order |-> <<>>, data |-> <<>>]
    /\ files = <<>>
    /\ fan_out_map = <<>>
    /\ dep_pc = "idle"
    /\ dep_i = 0

BpIdle ==
    /\ disk = <<>>
    /\ blueprint_data = [order |-> <<>>, structure |-> <<>>]
    /\ result = <<>>
    /\ bp_pc = "idle"
    /\ bp_i = 0

ScanInit ==
    /\ DepIdle
    /\ BpIdle
    /\ visitor = VisitorIdle
    /\ scan_pc = "start"
    /\ \E file_path \in ScanPathPool, content \in SeqsUpTo(ScanLinePool, MaxLines) :
           scan = RegexFrame(file_path, content)

\* lines 343-344: an extension without patterns returns the empty structure
ScanReject ==
    /\ scan_pc = "start"
    /\ scan.ext \notin CLASS_PATTERNS /\ scan.ext \notin FUNCTION_PATTERNS
    /\ scan_pc' = "done"
    /\ UNCHANGED <<scan, visitor, depVars, bpVars>>

\* lines 346-350
ScanBegin ==
    /\ scan_pc = "start"
    /\ ~(scan.ext \notin CLASS_PATTERNS /\ scan.ext \notin FUNCTION_PATTERNS)
    /\ scan_pc' = "loop"
    /\ UNCHANGED <<scan, visitor, depVars, bpVars>>

\* lines 352-445, one line
ScanStep ==
    /\ scan_pc = "loop"
    /\ scan.line_num <= Len(scan.lines)
    /\ scan' = ScanLine(scan)
    /\ UNCHANGED <<scan_pc, visitor, depVars, bpVars>>

\* line 447
ScanReturn ==
    /\ scan_pc = "loop"
    /\ scan.line_num > Len(scan.lines)
    /\ scan_pc' = "done"
    /\ UNCHANGED <<scan, visitor, depVars, bpVars>>

ScanNext == ScanReject \/ ScanBegin \/ ScanStep \/ ScanReturn

SpecRegex == ScanInit /\ [][ScanNext]_vars

\* ------------------------------------------------------------------------
\* Specification of the precise extractor, one node per step
\* ------------------------------------------------------------------------
MaxBlocks == 3

VisitInit ==
    /\ \E blocks \in SeqsUpTo(BlockPool, MaxBlocks) :
           visitor = NodeVisitor(CodeStructure(PathAPy), ParseBlocks(blocks))
    /\ scan = ScanIdle
    /\ scan_pc = "idle"
    /\ DepIdle
    /\ BpIdle

\* The top work item is a visit of a node whose type is in `types`
Visiting(types) ==
    /\ visitor.todo # <<>>
    /\ Head(visitor.todo).op = "visit"
    /\ Head(visitor.todo).node.type \in types

Leaving(op) == visitor.todo # <<>> /\ Head(visitor.todo).op = op

Step == visitor' = VisitStep(visitor) /\ UNCHANGED <<scan, scan_pc, depVars, bpVars>>

VisitClassDef == Visiting({"ClassDef"}) /\ Step
LeaveClassDef == Leaving("leave_class") /\ Step
VisitFunctionDef == Visiting(FunctionTypes) /\ Step
LeaveFunctionDef == Leaving("leave_function") /\ Step
VisitImport == Visiting(ImportTypes) /\ Step
VisitLoop == Visiting(LoopTypes) /\ Step
VisitAssign == Visiting(AssignTypes) /\ Step
VisitName == Visiting({"Name"}) /\ Step
VisitAttribute == Visiting({"Attribute"}) /\ Step
VisitOther ==
    /\ visitor.todo # <<>>
    /\ Head(visitor.todo).op = "visit"
    /\ Head(visitor.todo).node.type \notin VisitedTypes
    /\ Step

VisitNext ==
    \/ VisitClassDef \/ LeaveClassDef \/ VisitFunctionDef \/ LeaveFunctionDef
    \/ VisitImport \/ VisitLoop \/ VisitAssign \/ VisitName \/ VisitAttribute
    \/ VisitOther

SpecPrecise == VisitInit /\ [][VisitNext]_vars

\* ------------------------------------------------------------------------
\* Specification of both extractors: a file goes to one or the other
\* ------------------------------------------------------------------------
ExtractInit == ScanInit \/ VisitInit

ExtractNext == ScanNext \/ VisitNext

SpecExtract == ExtractInit /\ [][ExtractNext]_vars

\* ------------------------------------------------------------------------
\* Specification of the dependency analyzer, one file per step
\* ------------------------------------------------------------------------
MaxFiles == 3

PathAbPy == <<"a", "b", ".", "p", "y">>
PathBPy == <<"b", ".", "p", "y">>
PathXAH == <<"x", "/", "a", ".", "h">>

\* import a
TextImportA == <<"i", "m", "p", "o", "r", "t", " ", "a", "\n">>
\* from a import b / import a
TextFromAImportB == <<"f", "r", "o", "m", " ", "a", " ", "i", "m", "p", "o", "r", "t", " ", "b", "\n", "i", "m", "p", "o", "r", "t", " ", "a", "\n">>
\* #include "d/a.h"
TextIncludeH == <<"#", "i", "n", "c", "l", "u", "d", "e", " ", "\"", "d", "/", "a", ".", "h", "\"", "\n">>

\* What the disk holds for a path that open() fails on
Unreadable == <<"Unreadable">>

DepPathPool == {PathAPy, PathAbPy, PathBPy, PathXAH, PathMC}
DepTextPool == {TextImportA, TextFromAImportB, TextIncludeH, Unreadable}

\* The sequences of distinct elements of S of length at most n
DistinctSeqs(S, n) ==
    {q \in SeqsUpTo(S, n) : \A i, j \in 1..Len(q) : q[i] = q[j] => i = j}

\* The record of a file before the run: fresh from the driver, or carrying
\* the counts an earlier run wrote
FreshRecord == [loc |-> 1]
StaleRecord == [loc |-> 1, fan_out |-> 2, fan_in |-> 2]

\* The state at line 30, fan_out_map initialised (line 28).  A file without
\* a pattern is never opened (line 36): its text is held fixed.
DepInit ==
    /\ BpIdle
    /\ scan = ScanIdle
    /\ scan_pc = "idle"
    /\ visitor = VisitorIdle
    /\ \E order \in DistinctSeqs(DepPathPool, MaxFiles), rec \in {FreshRecord, StaleRecord} :
           /\ all_file_data = [order |-> order, data |-> [p \in ToSet(order) |-> rec]]
           /\ files \in {f \in [ToSet(order) -> DepTextPool] :
                          \A p \in ToSet(order) :
                              DEPENDENCY_PATTERNS(splitext(p)) = NoPattern =>
                                  f[p] = TextIncludeH}
           /\ fan_out_map = [p \in ToSet(order) |-> <<>>]
    /\ dep_pc = "fan_out"
    /\ dep_i = 1

\* The file of the current iteration of the first loop
CurrentPath == all_file_data.order[dep_i]

InFanOutLoop == dep_pc = "fan_out" /\ dep_i <= Len(all_file_data.order)

\* lines 32-36: no pattern for the extension, `continue`
FanOutNoPattern ==
    /\ InFanOutLoop
    /\ DEPENDENCY_PATTERNS(splitext(CurrentPath)) = NoPattern
    /\ dep_i' = dep_i + 1
    /\ UNCHANGED <<all_file_data, files, fan_out_map, dep_pc, extractVars, bpVars>>

\* lines 38-43: the file cannot be read, `continue`
FanOutUnreadable ==
    /\ InFanOutLoop
    /\ DEPENDENCY_PATTERNS(splitext(CurrentPath)) # NoPattern
    /\ files[CurrentPath] = Unreadable
    /\ dep_i' = dep_i + 1
    /\ UNCHANGED <<all_file_data, files, fan_out_map, dep_pc, extractVars, bpVars>>

\* lines 45-64: the dependencies of one file are found and resolved, and its
\* fan_out is stored
FanOutScan ==
    /\ InFanOutLoop
    /\ DEPENDENCY_PATTERNS(splitext(CurrentPath)) # NoPattern
    /\ files[CurrentPath] # Unreadable
    /\ LET path == CurrentPath
           found_dependencies ==
               ToSet(findall(DEPENDENCY_PATTERNS(splitext(path)), files[path], 1))
       IN  \E deps \in Orders(found_dependencies) :
               LET targets == fan_out_map[path] \o ResolveAll(all_file_data.order, path, deps)
               IN  /\ fan_out_map' = [fan_out_map EXCEPT ![path] = targets]
                   /\ all_file_data' =
                          [all_file_data EXCEPT
                              !.data[path] = Put(@, "fan_out", Cardinality(ToSet(targets)))]
    /\ dep_i' = dep_i + 1
    /\ UNCHANGED <<files, dep_pc, extractVars, bpVars>>

\* line 66: the first loop is over
FanOutDone ==
    /\ dep_pc = "fan_out"
    /\ dep_i > Len(all_file_data.order)
    /\ dep_pc' = "fan_in"
    /\ UNCHANGED <<all_file_data, files, fan_out_map, dep_i, extractVars, bpVars>>

\* lines 67-76: fan_in is counted and written to every record
FanIn ==
    /\ dep_pc = "fan_in"
    /\ LET fan_in_map == FanInMap(all_file_data.order, fan_out_map)
       IN  all_file_data' =
               [all_file_data EXCEPT
                   !.data = [p \in DOMAIN @ |-> Put(@[p], "fan_in", fan_in_map[p])]]
    /\ dep_pc' = "done"
    /\ UNCHANGED <<files, fan_out_map, dep_i, extractVars, bpVars>>

DepNext == FanOutNoPattern \/ FanOutUnreadable \/ FanOutScan \/ FanOutDone \/ FanIn

SpecDeps == DepInit /\ [][DepNext]_vars

\* ------------------------------------------------------------------------
\* The blueprint (analyze_codebase_blueprint) and the usage tracker
\* (track_class_usage)
\* ------------------------------------------------------------------------
\* Mappings whose order of keys matters (dict, defaultdict) are sequences of
\* [key, value] entries in insertion order.

\* map[key], or default for a missing key
Lookup(map, key, default) ==
    IF \E i \in 1..Len(map) : map[i].key = key
    THEN map[CHOOSE i \in 1..Len(map) : map[i].key = key].value
    ELSE default

\* map[key] = value: a present key keeps its place, a new one comes last
Upsert(map, key, value) ==
    IF \E i \in 1..Len(map) : map[i].key = key
    THEN [i \in 1..Len(map) |->
             IF map[i].key = key THEN [key |-> key, value |-> value] ELSE map[i]]
    ELSE Append(map, [key |-> key, value |-> value])

\* os.path.join(a, b) for a relative b
join(a, b) == a \o <<"/">> \o b

\* file_data.get(key, default)
Get(file_data, key, default) ==
    IF key \in DOMAIN file_data THEN file_data[key] ELSE default

\* Lines 323-335: the precise extractor, the heuristic one when the text
\* does not parse
analyze_python_file(file_path, content) ==
    IF content.parses
    THEN VisitAll(NodeVisitor(CodeStructure(file_path), ParseBlocks(content.blocks))).structure
    ELSE analyze_file_with_regex(file_path, content.lines)

\* Line 503: the record has no lines to analyze
SkipsNoLinesNever(file_data) == FALSE

SkipsNoLines(file_data) == Get(file_data, "loc", 0) = 0

\* Line 507: the file is not on the disk
SkipsMissing(dsk, file_path_abs) == file_path_abs \notin DOMAIN dsk

\* Lines 510-511: no pattern table knows the extension
SkipsExtension(file_path_rel) ==
    LET ext == splitext(file_path_rel)
    IN  ext \notin CLASS_PATTERNS /\ ext \notin FUNCTION_PATTERNS

\* Lines 514-518: the file cannot be read
SkipsUnreadable(dsk, file_path_abs) == ~dsk[file_path_abs].readable

\* Lines 520-526: the structure of one file enters blueprint_data
Extract(bp, dsk, repo_path, file_path_rel) ==
    LET file_path_abs == join(repo_path, file_path_rel)
        content == dsk[file_path_abs]
        structure == IF splitext(file_path_rel) = ExtPy
                     THEN analyze_python_file(file_path_abs, content)
                     ELSE analyze_file_with_regex(file_path_abs, content.lines)
    IN  [order |-> Append(bp.order, file_path_rel),
         structure |-> Put(bp.structure, file_path_rel, structure)]

\* Lines 455-456, the classes of one file
RECURSIVE DefineClasses(_, _, _)
DefineClasses(map, classes, file_path_rel) ==
    IF classes = <<>> THEN map
    ELSE DefineClasses(Upsert(map, Head(classes).name,
                              Append(Lookup(map, Head(classes).name, <<>>), file_path_rel)),
                       Tail(classes), file_path_rel)

\* Lines 453-456: class name -> the files that declare it, files [i..] of the
\* blueprint added to map
RECURSIVE ClassToFilesFrom(_, _, _)
ClassToFilesFrom(map, bp, i) ==
    IF i > Len(bp.order) THEN map
    ELSE ClassToFilesFrom(
             DefineClasses(map, bp.structure[bp.order[i]].classes, bp.order[i]),
             bp, i + 1)

class_to_files(bp) == ClassToFilesFrom(<<>>, bp, 1)

\* Lines 470-486 without the test of line 471
UsesNoSkip(file_path_rel, text, class_name, defining_files) ==
    References(text, class_name)

\* Lines 470-486: the file does not declare the class and its text matches
\* one of the reference patterns
Uses(file_path_rel, text, class_name, defining_files) ==
    /\ ~In(file_path_rel, defining_files)
    /\ References(text, class_name)

\* Lines 469-488: the loop over class_to_files for one file
RECURSIVE TrackClasses(_, _, _, _)
TrackClasses(structure, file_path_rel, text, ctf) ==
    IF ctf = <<>> THEN structure
    ELSE LET class_name == Head(ctf).key
             defining_files == Head(ctf).value
             next == IF Uses(file_path_rel, text, class_name, defining_files)
                     THEN [structure EXCEPT
                              !.class_usage =
                                  Upsert(@, class_name,
                                         Lookup(@, class_name, <<>>) \o defining_files)]
                     ELSE structure
         IN  TrackClasses(next, file_path_rel, text, Tail(ctf))

\* Lines 459-488 for one file of the blueprint (a file that cannot be read
\* is left as it is, lines 465-466)
Track(bp, dsk, repo_path, file_path_rel) ==
    LET file_path_abs == join(repo_path, file_path_rel)
    IN  IF file_path_abs \notin DOMAIN dsk \/ ~dsk[file_path_abs].readable THEN bp
        ELSE [bp EXCEPT !.structure[file_path_rel] =
                 TrackClasses(@, file_path_rel, Text(dsk[file_path_abs].lines),
                              class_to_files(bp))]

\* Lines 537-545: the serialized structure
Serialized(structure) ==
    [classes |-> structure.classes, functions |-> structure.functions,
     variables |-> structure.variables, loops |-> structure.loops,
     imports |-> structure.imports, class_usage |-> structure.class_usage,
     function_variable_usage |-> structure.function_variable_usage]

\* sum(len(s.<field>) for s in blueprint_data.values()), from file i on
RECURSIVE Total(_, _, _)
Total(bp, field, i) ==
    IF i > Len(bp.order) THEN 0
    ELSE Len(bp.structure[bp.order[i]][field]) + Total(bp, field, i + 1)

\* Lines 556-557, the usage of one structure
RECURSIVE CountUsage(_, _)
CountUsage(map, class_usage) ==
    IF class_usage = <<>> THEN map
    ELSE CountUsage(Upsert(map, Head(class_usage).key,
                           Lookup(map, Head(class_usage).key, 0)
                               + Len(Head(class_usage).value)),
                    Tail(class_usage))

\* Lines 554-557: class name -> usage count, files [i..] added to map
RECURSIVE ReuseCountFrom(_, _, _)
ReuseCountFrom(map, bp, i) ==
    IF i > Len(bp.order) THEN map
    ELSE ReuseCountFrom(CountUsage(map, bp.structure[bp.order[i]].class_usage),
                        bp, i + 1)

class_reuse_count(bp) == ReuseCountFrom(<<>>, bp, 1)

\* class_reuse_count.items()
Items(map) == [i \in 1..Len(map) |-> <<map[i].key, map[i].value>>]

\* list without its i-th element
RemoveAt(list, i) == SubSeq(list, 1, i - 1) \o SubSeq(list, i + 1, Len(list))

\* The items in the order they came
Unsorted(items) == items

\* sorted(items, key=lambda x: x[1], reverse=True): by count, largest first;
\* the sort is stable, items of equal count keep their order
RECURSIVE Sorted(_)
Sorted(items) ==
    IF items = <<>> THEN <<>>
    ELSE LET i == CHOOSE i \in 1..Len(items) :
                      /\ \A j \in 1..Len(items) : items[j][2] <= items[i][2]
                      /\ \A j \in 1..(i - 1) : items[j][2] < items[i][2]
         IN  <<items[i]>> \o Sorted(RemoveAt(items, i))

\* The length of the list of most reused classes (line 565)
TopN == 10

\* list[:n]
Prefix(list, n) == SubSeq(list, 1, IF Len(list) < n THEN Len(list) ELSE n)

\* Lines 532-568: the returned dictionary
Summary(bp) ==
    [blueprint |->
         [order |-> bp.order,
          data |-> [p \in DOMAIN bp.structure |-> Serialized(bp.structure[p])]],
     blueprint_stats |->
         [total_classes |-> Total(bp, "classes", 1),
          total_functions |-> Total(bp, "functions", 1),
          total_variables |-> Total(bp, "variables", 1),
          total_loops |-> Total(bp, "loops", 1),
          total_files_analyzed |-> Len(bp.order),
          most_reused_classes |-> Prefix(Sorted(Items(class_reuse_count(bp))), TopN)]]

\* ------------------------------------------------------------------------
\* Specification of the blueprint, one file per step
\* ------------------------------------------------------------------------
MaxBpFiles == 3

RepoPath == <<"r">>

PathSPy == <<"s", ".", "p", "y">>
PathZJava == <<"z", ".", "j", "a", "v", "a">>
PathNJava == <<"n", ".", "j", "a", "v", "a">>
PathXJava == <<"x", ".", "j", "a", "v", "a">>
PathUJava == <<"u", ".", "j", "a", "v", "a">>
PathKJava == <<"k", ".", "j", "a", "v", "a">>
PathJJava == <<"j", ".", "j", "a", "v", "a">>
PathVJava == <<"v", ".", "j", "a", "v", "a">>
PathWJava == <<"w", ".", "j", "a", "v", "a">>
PathDJava == <<"d", ".", "j", "a", "v", "a">>

\* A file of the disk: text that parses is given with its blocks as well
TextFile(lines) == [readable |-> TRUE, lines |-> lines, parses |-> FALSE, blocks |-> <<>>]
ParsedFile(lines, blocks) == [readable |-> TRUE, lines |-> lines, parses |-> TRUE, blocks |-> blocks]
LockedFile == [readable |-> FALSE, lines |-> <<>>, parses |-> FALSE, blocks |-> <<>>]

\* An input: the path, its record in all_file_data, its file on the disk
\* (on_disk FALSE: no such file)
Entry(path, data, on_disk, file) ==
    [path |-> path, data |-> data, on_disk |-> on_disk, file |-> file]

KNames == <<"Ka", "Kb", "Kc", "Kd", "Ke", "Kf", "Kg", "Kh", "Ki", "Kj", "Kk">>

LinesWidget ==
    << <<"class", "Widget", "{">>, <<"Widget", "(", ")", "{">>, <<"}">>, <<"}">> >>
LinesGadget ==
    << <<"class", "Gadget", "extends", "Widget", "{">>, <<"void", "run", "(", ")", "{">>,
       <<"w", "=", "new", "Widget", "(", ")", ";">>, <<"}">> >>
LinesClassA ==
    << <<"class", "A", ":">>,
       <<"  ", "def", "__init__", "(", "self", ")", ":">>,
       <<"    ", "self.x", "=", "1">>,
       <<"  ", "def", "get", "(", "self", ")", ":">>,
       <<"    ", "return", "self.x">> >>
LinesBroken == << <<"w", "=", "Widget", "(", ")">>, <<"class", "Zed", ":">> >>
LinesZed == << <<"class", "Zed", "extends", "Widget", "{">>, <<"}">> >>
LinesK == [i \in 1..Len(KNames) |-> <<"class", KNames[i], "{", "}">>]
LinesJ == << <<"class", "Ka", "{", "}">>, <<"class", "Kj", "{", "}">>,
             <<"new", "Kb", "(", ")", ";">> >>
LinesV == [i \in 1..Len(KNames) |-> <<"new", KNames[i], "(", ")", ";">>]
LinesW == << <<"new", "Kc", "(", ")", ";">>, <<"new", "Kk", "(", ")", ";">>,
             <<"new", "Widget", "(", ")", ";">> >>

LinesTwice ==
    << <<"class", "Widget", "{">>, <<"}">>, <<"class", "Widget", "{">>, <<"}">> >>

\* Inputs with the ways a record is skipped or analyzed
BlueprintPool ==
    {Entry(PathAJava, [loc |-> 4], TRUE, TextFile(LinesWidget)),
     Entry(PathBJava, [loc |-> 4], TRUE, TextFile(LinesGadget)),
     Entry(PathAPy, [loc |-> 5], TRUE, ParsedFile(LinesClassA, <<"classA">>)),
     Entry(PathSPy, [loc |-> 2], TRUE, TextFile(LinesBroken)),
     Entry(PathReadme, [loc |-> 2], TRUE, TextFile(LinesZed)),
     Entry(PathZJava, [loc |-> 0], TRUE, TextFile(LinesZed)),
     Entry(PathNJava, [size |-> 2], TRUE, TextFile(LinesZed)),
     Entry(PathXJava, [loc |-> 2], FALSE, LockedFile),
     Entry(PathUJava, [loc |-> 2], TRUE, LockedFile)}

\* Inputs with more than TopN classes in use
ReusePool ==
    {Entry(PathKJava, [loc |-> 11], TRUE, TextFile(LinesK)),
     Entry(PathJJava, [loc |-> 3], TRUE, TextFile(LinesJ)),
     Entry(PathVJava, [loc |-> 11], TRUE, TextFile(LinesV)),
     Entry(PathWJava, [loc |-> 3], TRUE, TextFile(LinesW)),
     Entry(PathAJava, [loc |-> 4], TRUE, TextFile(LinesWidget))}

\* Inputs with a class that one file declares twice
RedeclarePool ==
    {Entry(PathDJava, [loc |-> 4], TRUE, TextFile(LinesTwice)),
     Entry(PathAJava, [loc |-> 4], TRUE, TextFile(LinesWidget)),
     Entry(PathBJava, [loc |-> 4], TRUE, TextFile(LinesGadget)),
     Entry(PathWJava, [loc |-> 3], TRUE, TextFile(LinesW))}

\* all_file_data for a sequence of inputs
FileData(es) ==
    [order |-> [i \in 1..Len(es) |-> es[i].path],
     data |-> [p \in {es[i].path : i \in 1..Len(es)} |->
                  (CHOOSE e \in ToSet(es) : e.path = p).data]]

\* The disk for a sequence of inputs
Disk(repo_path, es) ==
    [a \in {join(repo_path, e.path) : e \in {x \in ToSet(es) : x.on_disk}} |->
        (CHOOSE e \in ToSet(es) : join(repo_path, e.path) = a).file]

BpInit ==
    /\ scan = ScanIdle
    /\ scan_pc = "idle"
    /\ visitor = VisitorIdle
    /\ files = <<>>
    /\ fan_out_map = <<>>
    /\ dep_pc = "idle"
    /\ dep_i = 0
    /\ \E es \in DistinctSeqs(BlueprintPool, MaxBpFiles)
                     \cup DistinctSeqs(ReusePool, MaxBpFiles)
                     \cup DistinctSeqs(RedeclarePool, MaxBpFiles) :
           /\ all_file_data = FileData(es)
           /\ disk = Disk(RepoPath, es)
    /\ blueprint_data = [order |-> <<>>, structure |-> <<>>]
    /\ result = <<>>
    /\ bp_pc = "extract"
    /\ bp_i = 1

\* Line 502: the record the first loop is at
InExtractLoop == bp_pc = "extract" /\ bp_i <= Len(all_file_data.order)
CurrentRel == all_file_data.order[bp_i]
CurrentAbs == join(RepoPath, CurrentRel)
NextRecord == bp_i' = bp_i + 1 /\ UNCHANGED <<disk, blueprint_data, result, bp_pc, extractVars, depVars>>

\* lines 503-504
BpSkipNoLines ==
    /\ InExtractLoop
    /\ SkipsNoLines(all_file_data.data[CurrentRel])
    /\ NextRecord

\* lines 506-508
BpSkipMissing ==
    /\ InExtractLoop
    /\ ~SkipsNoLines(all_file_data.data[CurrentRel])
    /\ SkipsMissing(disk, CurrentAbs)
    /\ NextRecord

\* lines 510-512
BpSkipExtension ==
    /\ InExtractLoop
    /\ ~SkipsNoLines(all_file_data.data[CurrentRel])
    /\ ~SkipsMissing(disk, CurrentAbs)
    /\ SkipsExtension(CurrentRel)
    /\ NextRecord

\* lines 514-518
BpSkipUnreadable ==
    /\ InExtractLoop
    /\ ~SkipsNoLines(all_file_data.data[CurrentRel])
    /\ ~SkipsMissing(disk, CurrentAbs)
    /\ ~SkipsExtension(CurrentRel)
    /\ SkipsUnreadable(disk, CurrentAbs)
    /\ NextRecord

\* lines 520-526
BpAnalyze ==
    /\ InExtractLoop
    /\ ~SkipsNoLines(all_file_data.data[CurrentRel])
    /\ ~SkipsMissing(disk, CurrentAbs)
    /\ ~SkipsExtension(CurrentRel)
    /\ ~SkipsUnreadable(disk, CurrentAbs)
    /\ blueprint_data' = Extract(blueprint_data, disk, RepoPath, CurrentRel)
    /\ bp_i' = bp_i + 1
    /\ UNCHANGED <<disk, result, bp_pc, extractVars, depVars>>

\* line 529: the first loop is over, track_class_usage is entered
BpExtracted ==
    /\ bp_pc = "extract"
    /\ bp_i > Len(all_file_data.order)
    /\ bp_pc' = "track"
    /\ bp_i' = 1
    /\ UNCHANGED <<disk, blueprint_data, result, extractVars, depVars>>

\* lines 459-488, one file of blueprint_data
TrackFile ==
    /\ bp_pc = "track"
    /\ bp_i <= Len(blueprint_data.order)
    /\ blueprint_data' = Track(blueprint_data, disk, RepoPath, blueprint_data.order[bp_i])
    /\ bp_i' = bp_i + 1
    /\ UNCHANGED <<disk, result, bp_pc, extractVars, depVars>>

\* lines 490 and 531-568
BpReturn ==
    /\ bp_pc = "track"
    /\ bp_i > Len(blueprint_data.order)
    /\ result' = Summary(blueprint_data)
    /\ bp_pc' = "done"
    /\ UNCHANGED <<disk, blueprint_data, bp_i, extractVars, depVars>>

BpNext ==
    \/ BpSkipNoLines \/ BpSkipMissing \/ BpSkipExtension \/ BpSkipUnreadable
    \/ BpAnalyze \/ BpExtracted \/ TrackFile \/ BpReturn

SpecBlueprint == BpInit /\ [][BpNext]_vars

\* '{' minus '}' of one line
LineBalance(line) == count(line, "{") - count(line, "}")

\* The balance of lines d..k of the scanned file, each line counted once
RECURSIVE BalanceOnce(_, _)
BalanceOnce(d, k) ==
    IF k < d THEN 0 ELSE BalanceOnce(d, k - 1) + LineBalance(scan.lines[k])

\* The base named after `extends` on a line, or None
ExtendsBase(line) ==
    LET ps == {p \in 1..Len(line) : line[p] = "extends" /\ IsWord(At(line, p + 1))}
    IN  IF ps = {} THEN None
        ELSE line[(CHOOSE p \in ps : \A q \in ps : p <= q) + 1]

\* C1: in heuristic mode the depth counter holds each line's brace balance
\* once, the declaration line included, and the class scope is open exactly
\* as long as that balance stayed above zero on every line since the
\* declaration: it closes on the first line where the balance is zero or
\* below (for `class Foo extends Bar {` / `int count;` / `}` after line 3).
C1_ScopeClosesAtZeroBalance ==
    (scan_pc \in {"loop", "done"} /\ scan.structure.classes # <<>>) =>
        LET classes == scan.structure.classes
            d == classes[Len(classes)].line
        IN  scan.in_class = (\A k \in d..(scan.line_num - 1) : BalanceOnce(d, k) > 0)

\* C4: in heuristic mode a class declared with `extends Base` gets a class
\* record whose inheritance list is exactly [Base].
C4_ExtendsBaseRecorded ==
    \A i \in 1..Len(scan.structure.classes) :
        LET c == scan.structure.classes[i]
            base == ExtendsBase(scan.lines[c.line])
        IN  base # None => c.inheritance = << <<base>> >>

\* The attributes X of the `self.X = ...` statements of a method body
SelfAssigned(body) ==
    {body[i].targets[j].attr :
        <<i, j>> \in {p \in (1..Len(body)) \X (1..2) :
                         /\ body[p[1]].type \in AssignTypes
                         /\ p[2] <= Len(body[p[1]].targets)
                         /\ IsSelfAttr(body[p[1]].targets[p[2]])}}

\* The names assigned through `self` in the methods of a class definition
SelfAssignedInMethods(classdef) ==
    UNION {SelfAssigned(classdef.body[i].body) :
              i \in {k \in 1..Len(classdef.body) : classdef.body[k].type \in FunctionTypes}}

\* No element occurs twice in the list
NoDuplicates(list) == \A i, j \in 1..Len(list) : list[i] = list[j] => i = j

\* C3: in precise mode a `self.X = ...` assignment inside a method of class
\* C makes X a member of C: the class record of C lists X in members (for
\* the class A of scenario 1, members = ["x"]).
C3_SelfAssignmentIsMember ==
    \A i \in 1..Len(visitor.tree.body), k \in 1..Len(visitor.structure.classes) :
        LET node == visitor.tree.body[i]
            rec == visitor.structure.classes[k]
        IN  (node.type = "ClassDef" /\ rec.name = node.name /\ rec.line = node.lineno) =>
                \A X \in SelfAssignedInMethods(node) : In(X, rec.members)

\* C5: in every class record of either extractor, methods and members each
\* hold any name at most once.
C5_NamesAtMostOnce ==
    /\ \A k \in 1..Len(visitor.structure.classes) :
           /\ NoDuplicates(visitor.structure.classes[k].methods)
           /\ NoDuplicates(visitor.structure.classes[k].members)
    /\ \A k \in 1..Len(scan.structure.classes) :
           /\ NoDuplicates(scan.structure.classes[k].methods)
           /\ NoDuplicates(scan.structure.classes[k].members)

\* ------------------------------------------------------------------------
\* Properties of the dependency analyzer
\* ------------------------------------------------------------------------
Paths == ToSet(all_file_data.order)

\* The first loop scans the file: its extension has a pattern and it is read
Scanned(p) == DEPENDENCY_PATTERNS(splitext(p)) # NoPattern /\ files[p] # Unreadable

\* The dependency tokens the content of p yields
Tokens(p) ==
    IF Scanned(p) THEN ToSet(findall(DEPENDENCY_PATTERNS(splitext(p)), files[p], 1))
    ELSE {}

\* Path z contains the token or the basename of the token
Contains(z, tok) == IsSubstring(tok, z) \/ IsSubstring(basename(tok), z)

\* y is the first path in the mapping's order, other than x, that contains tok
FirstMatch(x, y, tok) ==
    /\ y # x
    /\ Contains(y, tok)
    /\ \A k \in 1..Len(all_file_data.order) :
           LET z == all_file_data.order[k]
           IN  (z # x /\ z # y /\ Contains(z, tok)) =>
                   \E m \in 1..(k - 1) : all_file_data.order[m] = y

\* The resolved dependency set of s: the first match of each of its tokens
DependencySet(s) == {y \in Paths : \E tok \in Tokens(s) : FirstMatch(s, y, tok)}

\* C2: after analyze_dependencies every record carries fan_out and fan_in,
\* and a file without a dependency pattern or that cannot be read ends with
\* fan_out = 0.
C2_EveryRecordHasCounts ==
    dep_pc = "done" =>
        \A p \in Paths :
            /\ "fan_out" \in DOMAIN all_file_data.data[p]
            /\ "fan_in" \in DOMAIN all_file_data.data[p]
            /\ ~Scanned(p) => all_file_data.data[p].fan_out = 0

\* C6: after analyze_dependencies fan_in[t] is the number of distinct files
\* s other than t whose resolved dependency set contains t, a source with
\* several tokens resolving to t counting once, and no file is counted as
\* its own dependency in fan_out or fan_in.
C6_FanInCountsDistinctSources ==
    dep_pc = "done" =>
        \A t \in Paths :
            /\ all_file_data.data[t].fan_in =
                   Cardinality({s \in Paths \ {t} : t \in DependencySet(s)})
            /\ ~In(t, fan_out_map[t])
            /\ Scanned(t) =>
                   all_file_data.data[t].fan_out = Cardinality(DependencySet(t) \ {t})

\* C6 witness: a source holds two tokens that resolve to the same target,
\* one of them passing over the source itself, and the target's fan_in is 1
C6_Witness ==
    /\ dep_pc = "done"
    /\ \E s, t \in Paths :
           /\ Len(fan_out_map[s]) = 2
           /\ ToSet(fan_out_map[s]) = {t}
           /\ \E tok \in Tokens(s) : Contains(s, tok)
           /\ all_file_data.data[t].fan_in = 1

\* X yields exactly one token
OneToken(x, tok) == Tokens(x) = {tok}

\* C8 as stated: if X yields one token and the token matches Y's basename,
\* then fan_out[X] = 1, fan_in[Y] = 1 and X is counted for no other file,
\* whichever other files are in the mapping and in whatever order (read
\* with X the only file that yields tokens, so that fan_in[Y] counts X
\* alone).
C8_BasenameMatchResolvesToY ==
    dep_pc = "done" =>
        \A x, y \in Paths : \A tok \in Tokens(x) :
            (/\ x # y /\ OneToken(x, tok) /\ Contains(basename(y), tok)
             /\ \A s \in Paths \ {x} : Tokens(s) = {}) =>
                /\ all_file_data.data[x].fan_out = 1
                /\ all_file_data.data[y].fan_in = 1
                /\ \A z \in Paths \ {y} : ~In(z, fan_out_map[x])

\* C8 amended: if X yields one token and Y is the first file in the
\* mapping's order, other than X, whose path contains the token or its
\* basename, then fan_out[X] = 1, X is counted once in fan_in[Y] and for no
\* other file, and fan_in[Y] = 1 when no other file resolves to Y.
C8_FirstMatchResolvesToY ==
    dep_pc = "done" =>
        \A x, y \in Paths : \A tok \in Tokens(x) :
            (OneToken(x, tok) /\ FirstMatch(x, y, tok)) =>
                /\ all_file_data.data[x].fan_out = 1
                /\ fan_out_map[x] = <<y>>
                /\ all_file_data.data[y].fan_in >= 1
                /\ (\A s \in Paths \ {x} : ~In(y, fan_out_map[s])) =>
                       all_file_data.data[y].fan_in = 1

\* C8 witness: X yields one token that two other files contain; the first
\* of them in the mapping's order is the target
C8_Witness ==
    /\ dep_pc = "done"
    /\ \E x, y, z \in Paths : \E tok \in Tokens(x) :
           /\ OneToken(x, tok) /\ FirstMatch(x, y, tok)
           /\ z # x /\ z # y /\ Contains(basename(z), tok)
           /\ all_file_data.data[x].fan_out = 1
           /\ all_file_data.data[y].fan_in = 1
           /\ all_file_data.data[z].fan_in = 0

\* The files that declare class name c, by the classes lists of the blueprint
Declares(p, c) ==
    \E i \in 1..Len(blueprint_data.structure[p].classes) :
        blueprint_data.structure[p].classes[i].name = c

\* The usage list recorded for class name c in a class_usage mapping
UsageOf(class_usage, c) ==
    LET is == {i \in 1..Len(class_usage) : class_usage[i].key = c}
    IN  IF is = {} THEN <<>> ELSE class_usage[CHOOSE i \in is : TRUE].value

\* C7: at every point of track_class_usage and in the returned dictionary,
\* for every file F of the blueprint and every class name C, the list
\* class_usage[C] on F's structure does not contain F, and a file that
\* declares C has no usage recorded for C on its own structure.
C7_NoUsageOfOwnClasses ==
    /\ \A F \in DOMAIN blueprint_data.structure :
           LET class_usage == blueprint_data.structure[F].class_usage
           IN  /\ \A i \in 1..Len(class_usage) : ~In(F, class_usage[i].value)
               /\ \A i \in 1..Len(class_usage) : ~Declares(F, class_usage[i].key)
    /\ bp_pc = "done" =>
           \A F \in DOMAIN result.blueprint.data :
               LET class_usage == result.blueprint.data[F].class_usage
               IN  \A i \in 1..Len(class_usage) :
                       /\ ~In(F, class_usage[i].value)
                       /\ ~Declares(F, class_usage[i].key)

\* The run is over; some file declares a class and names it in its own text
\* in a way the reference patterns match, and another file has a usage of
\* that class recorded that points to the declaring file.
C7_Witness ==
    /\ bp_pc = "done"
    /\ \E F \in DOMAIN blueprint_data.structure, G \in DOMAIN blueprint_data.structure :
           \E i \in 1..Len(blueprint_data.structure[F].classes) :
               LET C == blueprint_data.structure[F].classes[i].name
               IN  /\ G # F
                   /\ References(Text(disk[join(RepoPath, F)].lines), C)
                   /\ In(F, UsageOf(result.blueprint.data[G].class_usage, C))

\* The record of path p has a zero or absent line count
NoLineCount(p) ==
    "loc" \notin DOMAIN all_file_data.data[p] \/ all_file_data.data[p].loc = 0

\* The file of path p is not on the disk
NotOnDisk(p) == \A a \in DOMAIN disk : a # RepoPath \o <<"/">> \o p

\* The input paths the claim says are skipped
SkippedPaths == {p \in ToSet(all_file_data.order) : NoLineCount(p) \/ NotOnDisk(p)}

\* The sum of the lengths of a sequence of lists
RECURSIVE SumOfLengths(_)
SumOfLengths(lists) ==
    IF lists = <<>> THEN 0 ELSE Len(Head(lists)) + SumOfLengths(Tail(lists))

\* C9: a record with a zero or absent line count, or whose file is not on
\* the disk, is skipped: its path never is a key of the blueprint, the usage
\* tracker never scans it as a referencing file, and in the returned
\* dictionary its path is not a key of _blueprint, the four totals are the
\* sums over the keys of _blueprint alone, and total_files_analyzed is the
\* number of keys of _blueprint.
C9_SkippedRecordsLeaveNoTrace ==
    /\ \A p \in SkippedPaths :
           /\ p \notin DOMAIN blueprint_data.structure
           /\ ~In(p, blueprint_data.order)
    /\ (bp_pc = "track" /\ bp_i <= Len(blueprint_data.order)) =>
           blueprint_data.order[bp_i] \notin SkippedPaths
    /\ bp_pc = "done" =>
           LET keys == DOMAIN result.blueprint.data
               order == result.blueprint.order
               stats == result.blueprint_stats
           IN  /\ keys \cap SkippedPaths = {}
               /\ keys = ToSet(order) /\ Cardinality(keys) = Len(order)
               /\ stats.total_classes = SumOfLengths([i \in 1..Len(order) |-> result.blueprint.data[order[i]].classes])
               /\ stats.total_functions = SumOfLengths([i \in 1..Len(order) |-> result.blueprint.data[order[i]].functions])
               /\ stats.total_variables = SumOfLengths([i \in 1..Len(order) |-> result.blueprint.data[order[i]].variables])
               /\ stats.total_loops = SumOfLengths([i \in 1..Len(order) |-> result.blueprint.data[order[i]].loops])
               /\ stats.total_files_analyzed = Cardinality(keys)

\* The run is over; one record had no line count though its file declares a
\* class, another named a file that is not on the disk, and a third was
\* analyzed and its classes counted.
C9_Witness ==
    /\ bp_pc = "done"
    /\ \E p \in ToSet(all_file_data.order) :
           /\ NoLineCount(p) /\ ~NotOnDisk(p)
           /\ analyze_file_with_regex(p, disk[join(RepoPath, p)].lines).classes # <<>>
    /\ \E p \in ToSet(all_file_data.order) : ~NoLineCount(p) /\ NotOnDisk(p)
    /\ result.blueprint_stats.total_files_analyzed = 1
    /\ result.blueprint_stats.total_classes = 1

\* The class names with a usage list on some structure of the returned blueprint
UsedClasses ==
    UNION {{result.blueprint.data[p].class_usage[i].key :
               i \in 1..Len(result.blueprint.data[p].class_usage)} :
           p \in DOMAIN result.blueprint.data}

\* The sum over all structures of the length of the usage list of class c
UsageCount(c) ==
    SumOfLengths([i \in 1..Len(result.blueprint.order) |->
                     UsageOf(result.blueprint.data[result.blueprint.order[i]].class_usage, c)])

\* Where class name c is first met when the structures are traversed in
\* order: the index of the file and the index within its class_usage
FirstSeen(c) ==
    LET order == result.blueprint.order
        Has(k) == UsageOf(result.blueprint.data[order[k]].class_usage, c) # <<>>
                  \/ \E i \in 1..Len(result.blueprint.data[order[k]].class_usage) :
                         result.blueprint.data[order[k]].class_usage[i].key = c
        k == CHOOSE k \in 1..Len(order) : Has(k) /\ \A m \in 1..(k - 1) : ~Has(m)
        class_usage == result.blueprint.data[order[k]].class_usage
    IN  <<k, CHOOSE i \in 1..Len(class_usage) : class_usage[i].key = c>>

SeenBefore(c, d) ==
    \/ FirstSeen(c)[1] < FirstSeen(d)[1]
    \/ FirstSeen(c)[1] = FirstSeen(d)[1] /\ FirstSeen(c)[2] < FirstSeen(d)[2]

\* C10: most_reused_classes holds at most 10 pairs of a class name and its
\* count, the count being the sum over all structures of the length of the
\* class's usage list; the pairs are in descending order of count, pairs of
\* equal count in the order the names were first met in the traversal of
\* the structures, and no class left out has a greater count than a class
\* of the list.
C10_MostReusedClasses ==
    bp_pc = "done" =>
        LET most_reused_classes == result.blueprint_stats.most_reused_classes
            n == Len(most_reused_classes)
            listed == {most_reused_classes[i][1] : i \in 1..n}
        IN  /\ n <= 10
            /\ \A i \in 1..n :
                   /\ most_reused_classes[i][1] \in UsedClasses
                   /\ most_reused_classes[i][2] = UsageCount(most_reused_classes[i][1])
            /\ \A i, j \in 1..n :
                   i < j =>
                       /\ most_reused_classes[i][1] # most_reused_classes[j][1]
                       /\ most_reused_classes[i][2] >= most_reused_classes[j][2]
                       /\ most_reused_classes[i][2] = most_reused_classes[j][2] =>
                              SeenBefore(most_reused_classes[i][1], most_reused_classes[j][1])
            /\ \A c \in UsedClasses \ listed :
                   \A i \in 1..n : UsageCount(c) <= most_reused_classes[i][2]

\* The run is over with more than 10 classes in use: the list is full, a
\* class is left out, and a class met later in the traversal stands before
\* one of smaller count that was met earlier.
C10_Witness ==
    /\ bp_pc = "done"
    /\ Cardinality(UsedClasses) > 10
    /\ Len(result.blueprint_stats.most_reused_classes) = 10
    /\ \E i, j \in 1..10 :
           LET most_reused_classes == result.blueprint_stats.most_reused_classes
           IN  /\ i < j
               /\ most_reused_classes[i][2] > most_reused_classes[j][2]
               /\ SeenBefore(most_reused_classes[j][1], most_reused_classes[i][1])

\* The largest line number of a node among the nodes and their descendants
RECURSIVE LastLine(_)
LastLine(nodes) ==
    IF nodes = <<>> THEN 0
    ELSE LET here == Head(nodes).lineno
             below == LastLine(Children(Head(nodes)))
             after == LastLine(Tail(nodes))
             m == IF here >= below THEN here ELSE below
         IN  IF m >= after THEN m ELSE after

\* The class records plus the function records of a structure
Records(structure) == Len(structure.classes) + Len(structure.functions)

\* C11: the class records plus the top-level function records never exceed
\* the number of lines: in heuristic mode they are at most the lines scanned
\* so far and one scanned line adds at most one record (a line that matches
\* the class and the function pattern adds the class record only, the
\* function name goes to the methods of that class); in precise mode they
\* are at most the last line that holds a node of the tree.
C11_RecordsAtMostLines ==
    /\ [](scan_pc \in {"loop", "done"} =>
              /\ Records(scan.structure) <= scan.line_num - 1
              /\ Records(scan.structure) <= Len(scan.lines))
    /\ [](Records(visitor.structure) <= LastLine(<<visitor.tree>>))
    /\ [][Records(scan.structure') <= Records(scan.structure) + 1]_vars

\* A scan in heuristic mode is over in which every line added a record,
\* among them a line that matches both the class and the function pattern
\* and whose function name went to the methods of the class.
C11_Witness ==
    /\ scan_pc = "done"
    /\ Len(scan.lines) >= 2
    /\ Records(scan.structure) = Len(scan.lines)
    /\ scan.structure.functions # <<>>
    /\ \E i \in 1..Len(scan.structure.classes) :
           LET c == scan.structure.classes[i]
           IN  /\ ClassMatch(scan.ext, scan.lines[c.line]) = c.name
               /\ FuncMatch(scan.ext, scan.lines[c.line]) # None
               /\ In(FuncMatch(scan.ext, scan.lines[c.line]), c.methods)

\* The usage list of function func in a visitor
UsageList(v, func) ==
    IF func \in DOMAIN v.structure.function_variable_usage
    THEN v.structure.function_variable_usage[func]
    ELSE <<>>

\* Line l holds an assignment statement of the module body
ModuleLevelLine(v, l) ==
    \E k \in 1..Len(v.tree.body) :
        v.tree.body[k].type \in AssignTypes /\ v.tree.body[k].lineno = l

\* The kind the rule gives a bare name: member if it is a cached member of
\* the innermost enclosing class, else global if a module-level variable of
\* that name is recorded, else local
KindByRule(v, name) ==
    IF /\ v.current_class # None
       /\ v.current_class \in DOMAIN v.class_members_cache
       /\ In(name, v.class_members_cache[v.current_class])
    THEN "member"
    ELSE IF \E i \in 1..Len(v.structure.variables) :
                /\ v.structure.variables[i].name = name
                /\ ModuleLevelLine(v, v.structure.variables[i].line)
    THEN "global"
    ELSE "local"

\* The visit of a bare name appends a usage record to the current function
NameRecorded ==
    /\ Visiting({"Name"})
    /\ visitor.current_function # None
    /\ Len(UsageList(visitor', visitor.current_function))
           = Len(UsageList(visitor, visitor.current_function)) + 1

\* C12: in precise mode the record appended for a bare name inside a
\* function body, be the function a method or a top-level function, has the
\* kind member if the name is a cached member of the innermost enclosing
\* class, else global if it names a recorded module-level variable, else
\* local.
C12_BareNameKindByRule ==
    [][NameRecorded =>
          LET list == UsageList(visitor', visitor.current_function)
          IN  list[Len(list)].type = KindByRule(visitor, Head(visitor.todo).node.id)]_vars

\* The top work item is a visit of `self.<attr>` while a function is current
SelfAccess ==
    /\ Visiting({"Attribute"})
    /\ IsSelfAttr(Head(visitor.todo).node)
    /\ visitor.current_function # None

\* The records function `func` holds for variable `var` at line `line`
RecordsFor(v, func, var, line) ==
    LET list == UsageList(v, func)
    IN  {i \in 1..Len(list) : list[i].var = var /\ list[i].line = line}

\* C13: once the precise extractor has visited an access `self.X` at line L
\* inside function f, the usage list of f holds exactly one record for the
\* pair (X, L) and the kind of that record is member, whatever other names
\* (a bare name X included) are referenced on line L.
C13_SelfAccessOneMemberRecord ==
    [][SelfAccess =>
          LET node == Head(visitor.todo).node
              func == visitor.current_function
              list == UsageList(visitor', func)
              recs == RecordsFor(visitor', func, node.attr, node.lineno)
          IN  /\ Cardinality(recs) = 1
              /\ \A i \in recs : list[i].type = "member"]_vars

\* The traversal is at module scope: inside no class and no function
ModuleScope == visitor.current_class = None /\ visitor.current_function = None

\* C15: the precise extractor adds a record to variables only for an
\* assignment at module scope; an assignment inside a class body, a method or
\* the body of a top-level function leaves variables unchanged.
C15_VariablesOnlyFromModuleScope ==
    [][visitor.structure.variables' # visitor.structure.variables =>
          Visiting(AssignTypes) /\ ModuleScope]_vars

\* The class names the files of the blueprint declare
DeclaredClasses ==
    UNION {{blueprint_data.structure[p].classes[i].name :
                i \in 1..Len(blueprint_data.structure[p].classes)} :
           p \in DOMAIN blueprint_data.structure}

\* The files of the blueprint that declare class name c
DefiningFiles(c) == {p \in DOMAIN blueprint_data.structure : Declares(p, c)}

\* class_usage has an entry for class name c
HasUsage(class_usage, c) == \E i \in 1..Len(class_usage) : class_usage[i].key = c

\* C14: after track_class_usage, for every file F of the blueprint and every
\* class name C that F does not declare: if the text of F matches one of the
\* reference patterns for C, class_usage[C] on F's structure lists exactly
\* the files that declare C, each of them once; if no pattern matches, F's
\* structure has no entry for C.
C14_UsageListsDefiningFilesOnce ==
    bp_pc = "done" =>
        \A F \in DOMAIN blueprint_data.structure : \A C \in DeclaredClasses :
            ~Declares(F, C) =>
                LET class_usage == blueprint_data.structure[F].class_usage
                    list == UsageOf(class_usage, C)
                IN  IF References(Text(disk[join(RepoPath, F)].lines), C)
                    THEN /\ HasUsage(class_usage, C)
                         /\ ToSet(list) = DefiningFiles(C)
                         /\ Len(list) = Cardinality(DefiningFiles(C))
                    ELSE ~HasUsage(class_usage, C)
====
